---- MODULE Spec2Model ----
(***************************************************************************)
(* State machine of the resume analyzer's App component: its React state,  *)
(* the window-level PDF library handle, and the in-flight invocations of   *)
(* its asynchronous handlers (processFile, analyzeResume, handleLogout,    *)
(* handleGoogleLogin).  Each await of a handler is one point where the     *)
(* environment settles a promise and the handler runs to its next await.   *)
(* Strings are sequences of one-character strings.                         *)
(***************************************************************************)
EXTENDS Integers, Sequences, FiniteSets, Bags, TLC

VARIABLES
    user,           \* useState(null), line 64
    authLoading,    \* useState(true), line 65
    resumeText,     \* line 68
    jobDescription, \* line 69
    loading,        \* line 70
    result,         \* line 71
    error,          \* line 72
    fileName,       \* line 73
    pdfjsLib,       \* window.pdfjsLib is defined
    scriptFetches,  \* script elements appended to document.head by the loader
    scriptLoads,    \* script elements whose load completed (onload fired)
    netCalls,       \* fetch() calls issued by analyzeResume
    files,          \* in-flight processFile invocations
    analyses,       \* in-flight analyzeResume invocations
    signOuts,       \* in-flight handleLogout invocations (awaiting signOut)
    signIns,        \* in-flight handleGoogleLogin invocations (awaiting the popup)
    unhandled,      \* handlers whose promise ended rejected
    env,            \* build-time configuration: the two keys of import.meta.env
    ops,            \* number of user-triggered events so far
    lastEvent       \* the handler step taken last, and how it ended

vars == <<user, authLoading, resumeText, jobDescription, loading, result, error,
          fileName, pdfjsLib, scriptFetches, scriptLoads, netCalls, files,
          analyses, signOuts, signIns, unhandled, env, ops, lastEvent>>

----------------------------------------------------------------------------
(* Bounds *)

MaxOps == 4
MaxPages == 2

----------------------------------------------------------------------------
(* Values *)

Null == [null |-> TRUE]
NoUser == "null"
\* error is null or one message
NoError == "null"
SomeUser == "user"
EmptyStr == << >>

Whitespace == {" ", "\n"}

RECURSIVE TrimStart(_)
TrimStart(s) ==
    IF s # << >> /\ Head(s) \in Whitespace THEN TrimStart(Tail(s)) ELSE s

RECURSIVE TrimEnd(_)
TrimEnd(s) ==
    IF s # << >> /\ s[Len(s)] \in Whitespace
    THEN TrimEnd(SubSeq(s, 1, Len(s) - 1))
    ELSE s

\* String.prototype.trim
Trim(s) == TrimEnd(TrimStart(s))

\* Array.prototype.join(sep) over an array of strings
RECURSIVE Join(_, _)
Join(strs, sep) ==
    IF strs = << >> THEN << >>
    ELSE IF Len(strs) = 1 THEN strs[1]
    ELSE strs[1] \o sep \o Join(Tail(strs), sep)

MsgFirebase == "Firebase not configured. Check your .env file."
MsgLogin == "Login failed. Please check your Firebase configuration."
MsgPdf == "Could not read PDF. Ensure it is text-based (not scanned)."
MsgUnsupported == "Unsupported file type. Please use PDF or TXT."
MsgValidation == "Please provide both a resume and a job description."
MsgApiKey == "API Key missing! Please add VITE_GEMINI_API_KEY to your .env file."
MsgAnalysis == "Analysis failed. Check your API key or connection."

SampleResume == <<"S","a","m","p","l","e"," ","R","e","s","u","m","e",".",".",".">>
SampleJob == <<"S","a","m","p","l","e"," ","J","o","b",".",".",".">>

\* What the user may type or paste into a textarea
TypedTexts == { <<" ", "\n">>, <<" ", "a">> }

\* The text items of one PDF page (item.str of each), as pdf.js returns them:
\* a page of two items, a page of none, a page of one
PageSet == { << <<"a">>, <<"b", "c">> >>, << >>, << <<"d">> >> }

\* Documents of up to MaxPages pages
Docs == UNION { [1..n -> PageSet] : n \in 1..MaxPages }

Pdf(d) == [name |-> "cv.pdf", type |-> "application/pdf", pages |-> d, text |-> << >>]
PdfFiles == { Pdf(d) : d \in Docs }

\* The files of the general specification: one PDF of two pages, one text
\* file, one image
TwoPagePdf == Pdf(<< << <<"a">>, <<"b", "c">> >>, << <<"d">> >> >>)
TxtFile ==
    [name |-> "notes.txt", type |-> "text/plain", pages |-> << >>,
     text |-> <<"a", "\n", "b">>]
PngFile ==
    [name |-> "photo.png", type |-> "image/png", pages |-> << >>, text |-> << >>]

Files == {TwoPagePdf, TxtFile, PngFile}

\* No file: the event concerns none
NoFile == [name |-> "", type |-> "", pages |-> << >>, text |-> << >>]

Event(op, out, file) == [op |-> op, out |-> out, file |-> file]

----------------------------------------------------------------------------
Init ==
    /\ user = NoUser
    /\ authLoading = TRUE
    /\ resumeText = EmptyStr
    /\ jobDescription = EmptyStr
    /\ loading = FALSE
    /\ result = Null
    /\ error = NoError
    /\ fileName = ""
    /\ pdfjsLib = FALSE
    /\ scriptFetches = 0
    /\ scriptLoads = 0
    /\ netCalls = 0
    /\ files = EmptyBag
    /\ analyses = EmptyBag
    /\ signOuts = 0
    /\ signIns = 0
    /\ unhandled = {}
    /\ env \in [VITE_FIREBASE_API_KEY : BOOLEAN, VITE_GEMINI_API_KEY : BOOLEAN]
    /\ ops = 0
    /\ lastEvent = Event("init", "", NoFile)

----------------------------------------------------------------------------
(* Configuration *)

\* getEnv(key): TRUE when the variable is set to a non-empty value
getEnv(key) == env[key]

\* The module-level auth handle: defined only when the Firebase key is set
auth == getEnv("VITE_FIREBASE_API_KEY")

\* Which screen App renders
LoginScreen == ~authLoading /\ user = NoUser
MainScreen == ~authLoading /\ user # NoUser

UserEvent == ops < MaxOps /\ ops' = ops + 1

----------------------------------------------------------------------------
(* Identity *)

\* The mount effect: without auth it only clears authLoading; with auth the
\* provider's first callback delivers the persisted user or none.
AuthListener ==
    /\ authLoading
    /\ authLoading' = FALSE
    /\ IF auth THEN user' \in {NoUser, SomeUser} ELSE user' = user
    /\ lastEvent' = Event("onAuthStateChanged", "", NoFile)
    /\ UNCHANGED <<resumeText, jobDescription, loading, result, error, fileName,
                   pdfjsLib, scriptFetches, scriptLoads, netCalls, files, analyses,
                   signOuts, signIns, unhandled, env, ops>>

handleGoogleLogin ==
    /\ LoginScreen
    /\ UserEvent
    /\ IF ~auth
       THEN /\ error' = MsgFirebase
            /\ signIns' = signIns
            /\ lastEvent' = Event("handleGoogleLogin", "notConfigured", NoFile)
       ELSE /\ error' = error
            /\ signIns' = signIns + 1
            /\ lastEvent' = Event("handleGoogleLogin", "started", NoFile)
    /\ UNCHANGED <<user, authLoading, resumeText, jobDescription, loading, result,
                   fileName, pdfjsLib, scriptFetches, scriptLoads, netCalls, files,
                   analyses, signOuts, unhandled, env>>

\* signInWithPopup resolves: the provider notifies the listener of the new user
SignInResolved ==
    /\ signIns > 0
    /\ signIns' = signIns - 1
    /\ user' = SomeUser
    /\ lastEvent' = Event("handleGoogleLogin", "ok", NoFile)
    /\ UNCHANGED <<authLoading, resumeText, jobDescription, loading, result, error,
                   fileName, pdfjsLib, scriptFetches, scriptLoads, netCalls, files,
                   analyses, signOuts, unhandled, env, ops>>

\* signInWithPopup rejects: caught at lines 100-103
SignInRejected ==
    /\ signIns > 0
    /\ signIns' = signIns - 1
    /\ error' = MsgLogin
    /\ lastEvent' = Event("handleGoogleLogin", "failed", NoFile)
    /\ UNCHANGED <<user, authLoading, resumeText, jobDescription, loading, result,
                   fileName, pdfjsLib, scriptFetches, scriptLoads, netCalls, files,
                   analyses, signOuts, unhandled, env, ops>>

\* handleLogout up to its await.  The main screen exists only with a user, and
\* a user only with auth, so signOut(auth) is always awaited.
handleLogout ==
    /\ MainScreen
    /\ UserEvent
    /\ signOuts' = signOuts + 1
    /\ lastEvent' = Event("handleLogout", "started", NoFile)
    /\ UNCHANGED <<user, authLoading, resumeText, jobDescription, loading, result,
                   error, fileName, pdfjsLib, scriptFetches, scriptLoads, netCalls,
                   files, analyses, signIns, unhandled, env>>

\* signOut resolves: the listener receives none and handleLogout runs on
\* (lines 108-110) in the same turn.
SignOutResolved ==
    /\ signOuts > 0
    /\ signOuts' = signOuts - 1
    /\ user' = NoUser
    /\ result' = Null
    /\ resumeText' = EmptyStr
    /\ jobDescription' = EmptyStr
    /\ lastEvent' = Event("handleLogout", "ok", NoFile)
    /\ UNCHANGED <<authLoading, loading, error, fileName, pdfjsLib, scriptFetches,
                   scriptLoads, netCalls, files, analyses, signIns, unhandled, env,
                   ops>>

\* signOut rejects: nothing catches it, handleLogout's promise rejects
SignOutRejected ==
    /\ signOuts > 0
    /\ signOuts' = signOuts - 1
    /\ unhandled' = unhandled \cup {"handleLogout"}
    /\ lastEvent' = Event("handleLogout", "rejected", NoFile)
    /\ UNCHANGED <<user, authLoading, resumeText, jobDescription, loading, result,
                   error, fileName, pdfjsLib, scriptFetches, scriptLoads, netCalls,
                   files, analyses, signIns, env, ops>>

----------------------------------------------------------------------------
(* Direct edits *)

\* Resume textarea onChange, line 290
EditResume(t) ==
    /\ MainScreen
    /\ UserEvent
    /\ resumeText' = t
    /\ lastEvent' = Event("editResume", "", NoFile)
    /\ UNCHANGED <<user, authLoading, jobDescription, loading, result, error,
                   fileName, pdfjsLib, scriptFetches, scriptLoads, netCalls, files,
                   analyses, signOuts, signIns, unhandled, env>>

\* Job description textarea onChange, line 305
EditJob(t) ==
    /\ MainScreen
    /\ UserEvent
    /\ jobDescription' = t
    /\ lastEvent' = Event("editJob", "", NoFile)
    /\ UNCHANGED <<user, authLoading, resumeText, loading, result, error, fileName,
                   pdfjsLib, scriptFetches, scriptLoads, netCalls, files, analyses,
                   signOuts, signIns, unhandled, env>>

\* Auto-Fill button, line 312
AutoFill ==
    /\ MainScreen
    /\ UserEvent
    /\ resumeText' = SampleResume
    /\ jobDescription' = SampleJob
    /\ fileName' = "Sample.txt"
    /\ lastEvent' = Event("autoFill", "", NoFile)
    /\ UNCHANGED <<user, authLoading, loading, result, error, pdfjsLib,
                   scriptFetches, scriptLoads, netCalls, files, analyses, signOuts,
                   signIns, unhandled, env>>

\* The error banner's dismiss button, line 271
DismissError ==
    /\ MainScreen
    /\ error # NoError
    /\ UserEvent
    /\ error' = NoError
    /\ lastEvent' = Event("dismissError", "", NoFile)
    /\ UNCHANGED <<user, authLoading, resumeText, jobDescription, loading, result,
                   fileName, pdfjsLib, scriptFetches, scriptLoads, netCalls, files,
                   analyses, signOuts, signIns, unhandled, env>>

----------------------------------------------------------------------------
(* Document ingestion *)

IsPdf(f) == f.type = "application/pdf"
IsTxt(f) == f.type = "text/plain"

Call(f, pc) == [file |-> f, pc |-> pc, i |-> 0, fullText |-> << >>]

\* In-flight invocations are kept as bags: two calls may be at the same point
Add(bag, c) == bag (+) SetToBag({c})
Drop(bag, c) == bag (-) SetToBag({c})
Move(bag, c, d) == Add(Drop(bag, c), d)

\* The setState calls every processFile makes before it branches, lines 116-117
RecordFile(f) ==
    /\ fileName' = f.name
    /\ error' = NoError

\* processFile(undefined): a drop that carries no file, line 115
processNoFile ==
    /\ MainScreen
    /\ UserEvent
    /\ lastEvent' = Event("processFile", "noFile", NoFile)
    /\ UNCHANGED <<user, authLoading, resumeText, jobDescription, loading, result,
                   error, fileName, pdfjsLib, scriptFetches, scriptLoads, netCalls,
                   files, analyses, signOuts, signIns, unhandled, env>>

\* ensurePdfJsLoaded as called at line 122: the cached library when
\* window.pdfjsLib is set, else a new script element and a pending promise.
ensurePdfJsLoaded(f) ==
    IF pdfjsLib
    THEN /\ files' = Add(files, Call(f, "bytes"))
         /\ scriptFetches' = scriptFetches
    ELSE /\ files' = Add(files, Call(f, "lib"))
         /\ scriptFetches' = scriptFetches + 1

\* processFile of a PDF up to its first pending await, lines 116-123
processPdfStart(f) ==
    /\ MainScreen
    /\ UserEvent
    /\ IsPdf(f)
    /\ RecordFile(f)
    /\ loading' = TRUE
    /\ ensurePdfJsLoaded(f)
    /\ lastEvent' = Event("processFile", "started", f)
    /\ UNCHANGED <<user, authLoading, resumeText, jobDescription, result, pdfjsLib,
                   scriptLoads, netCalls, analyses, signOuts, signIns, unhandled,
                   env>>

\* processFile of a plain-text file up to await file.text(), lines 139-140
processTxtStart(f) ==
    /\ MainScreen
    /\ UserEvent
    /\ IsTxt(f)
    /\ RecordFile(f)
    /\ files' = Add(files, Call(f, "read"))
    /\ lastEvent' = Event("processFile", "started", f)
    /\ UNCHANGED <<user, authLoading, resumeText, jobDescription, loading, result,
                   pdfjsLib, scriptFetches, scriptLoads, netCalls, analyses,
                   signOuts, signIns, unhandled, env>>

\* Variant: the file name recorded only once the type is accepted
processUnsupportedNoName(f) ==
    /\ MainScreen
    /\ UserEvent
    /\ ~IsPdf(f) /\ ~IsTxt(f)
    /\ error' = MsgUnsupported
    /\ lastEvent' = Event("processFile", "unsupported", f)
    /\ UNCHANGED <<user, authLoading, resumeText, jobDescription, loading, result,
                   fileName, pdfjsLib, scriptFetches, scriptLoads, netCalls, files,
                   analyses, signOuts, signIns, unhandled, env>>

\* processFile of any other type, lines 116-117 and 142-144
processUnsupported(f) ==
    /\ MainScreen
    /\ UserEvent
    /\ ~IsPdf(f) /\ ~IsTxt(f)
    /\ fileName' = f.name
    /\ error' = MsgUnsupported
    /\ lastEvent' = Event("processFile", "unsupported", f)
    /\ UNCHANGED <<user, authLoading, resumeText, jobDescription, loading, result,
                   pdfjsLib, scriptFetches, scriptLoads, netCalls, files, analyses,
                   signOuts, signIns, unhandled, env>>

\* script.onload, lines 31-35: the script has defined window.pdfjsLib
ScriptOnload(c) ==
    /\ c.pc = "lib"
    /\ pdfjsLib' = TRUE
    /\ scriptLoads' = scriptLoads + 1
    /\ files' = Move(files, c, [c EXCEPT !.pc = "bytes"])
    /\ lastEvent' = Event("processFile", "progress", c.file)
    /\ UNCHANGED <<user, authLoading, resumeText, jobDescription, loading, result,
                   error, fileName, scriptFetches, netCalls, analyses, signOuts,
                   signIns, unhandled, env, ops>>

\* The catch and finally blocks of the PDF branch, lines 133-138
PdfCatch(c) ==
    /\ error' = MsgPdf
    /\ loading' = FALSE
    /\ files' = Drop(files, c)
    /\ lastEvent' = Event("processFile", "failed", c.file)
    /\ UNCHANGED <<user, authLoading, resumeText, jobDescription, result, fileName,
                   pdfjsLib, scriptFetches, scriptLoads, netCalls, analyses,
                   signOuts, signIns, unhandled, env, ops>>

\* script.onerror, line 36: the loader's promise rejects inside the try
ScriptOnerror(c) ==
    /\ c.pc = "lib"
    /\ PdfCatch(c)

\* file.arrayBuffer(), getDocument, getPage or getTextContent rejects
PdfRejected(c) ==
    /\ c.pc \in {"bytes", "doc", "page", "text"}
    /\ PdfCatch(c)

\* file.arrayBuffer() resolves, line 123
BytesRead(c) ==
    /\ c.pc = "bytes"
    /\ files' = Move(files, c, [c EXCEPT !.pc = "doc"])
    /\ lastEvent' = Event("processFile", "progress", c.file)
    /\ UNCHANGED <<user, authLoading, resumeText, jobDescription, loading, result,
                   error, fileName, pdfjsLib, scriptFetches, scriptLoads, netCalls,
                   analyses, signOuts, signIns, unhandled, env, ops>>

\* getDocument resolves, lines 124-127: the loop starts at page 1; a document
\* without pages skips it and stores the empty text (lines 132, 136-138)
DocOpened(c) ==
    /\ c.pc = "doc"
    /\ IF 1 <= Len(c.file.pages)
       THEN /\ files' = Move(files, c, [c EXCEPT !.pc = "page", !.i = 1])
            /\ lastEvent' = Event("processFile", "progress", c.file)
            /\ UNCHANGED <<resumeText, loading>>
       ELSE /\ files' = Drop(files, c)
            /\ resumeText' = c.fullText
            /\ loading' = FALSE
            /\ lastEvent' = Event("processFile", "ok", c.file)
    /\ UNCHANGED <<user, authLoading, jobDescription, result, error, fileName,
                   pdfjsLib, scriptFetches, scriptLoads, netCalls, analyses,
                   signOuts, signIns, unhandled, env, ops>>

\* getPage(i) resolves, line 127
PageGot(c) ==
    /\ c.pc = "page"
    /\ files' = Move(files, c, [c EXCEPT !.pc = "text"])
    /\ lastEvent' = Event("processFile", "progress", c.file)
    /\ UNCHANGED <<user, authLoading, resumeText, jobDescription, loading, result,
                   error, fileName, pdfjsLib, scriptFetches, scriptLoads, netCalls,
                   analyses, signOuts, signIns, unhandled, env, ops>>

\* Variant: the page's items joined without a separator
AppendPageNoSpace(fullText, items) == fullText \o Join(items, << >>) \o <<"\n">>

\* Lines 129-130: the page's items joined by a space, then a newline
AppendPage(fullText, items) == fullText \o Join(items, <<" ">>) \o <<"\n">>

\* getTextContent resolves, lines 128-132 and 136-138: the page is appended;
\* after the last page the text is stored and loading cleared.
TextGot(c) ==
    /\ c.pc = "text"
    /\ LET text == AppendPage(c.fullText, c.file.pages[c.i]) IN
       IF c.i < Len(c.file.pages)
       THEN /\ files' = Move(files, c,
                   [c EXCEPT !.pc = "page", !.i = c.i + 1, !.fullText = text])
            /\ lastEvent' = Event("processFile", "progress", c.file)
            /\ UNCHANGED <<resumeText, loading>>
       ELSE /\ files' = Drop(files, c)
            /\ resumeText' = text
            /\ loading' = FALSE
            /\ lastEvent' = Event("processFile", "ok", c.file)
    /\ UNCHANGED <<user, authLoading, jobDescription, result, error, fileName,
                   pdfjsLib, scriptFetches, scriptLoads, netCalls, analyses,
                   signOuts, signIns, unhandled, env, ops>>

\* file.text() resolves, lines 140-141
TxtRead(c) ==
    /\ c.pc = "read"
    /\ resumeText' = c.file.text
    /\ files' = Drop(files, c)
    /\ lastEvent' = Event("processFile", "ok", c.file)
    /\ UNCHANGED <<user, authLoading, jobDescription, loading, result, error,
                   fileName, pdfjsLib, scriptFetches, scriptLoads, netCalls,
                   analyses, signOuts, signIns, unhandled, env, ops>>

\* file.text() rejects: the text branch has no try, processFile's promise rejects
TxtRejected(c) ==
    /\ c.pc = "read"
    /\ unhandled' = unhandled \cup {"processFile"}
    /\ files' = Drop(files, c)
    /\ lastEvent' = Event("processFile", "rejected", c.file)
    /\ UNCHANGED <<user, authLoading, resumeText, jobDescription, loading, result,
                   error, fileName, pdfjsLib, scriptFetches, scriptLoads, netCalls,
                   analyses, signOuts, signIns, env, ops>>

----------------------------------------------------------------------------
(* Analysis client *)

\* JSON values, tagged with their JavaScript type
JNum(n) == [type |-> "number", v |-> n]
JStr(x) == [type |-> "string", v |-> x]
JArr(a) == [type |-> "array", v |-> a]

FullResult ==
    [matchScore |-> JNum(82), summary |-> JStr("Strong match"),
     missingKeywords |-> JArr(<<"Kubernetes">>),
     strengths |-> JArr(<<"Go experience">>),
     improvements |-> JArr(<<"Add cloud certs">>)]

\* A well-formed JSON object without the three lists
PartialResult == [matchScore |-> JNum(82), summary |-> JStr("Strong match")]

\* A model reply is a sequence of tokens: fence markers, whitespace, and
\* documents.  These documents are well-formed JSON; any other is not.
JsonDocs == {"{full}", "{partial}", "null"}
JsonValue(tok) ==
    CASE tok = "{full}" -> FullResult
      [] tok = "{partial}" -> PartialResult
      [] tok = "null" -> Null

\* The two fence markers line 188 removes: three backquotes followed by "json",
\* and three backquotes alone
FenceJson == "[fence]json"
Fence == "[fence]"

RawTexts ==
    { <<"{full}">>,
      <<FenceJson, "\n", "{full}", "\n", Fence>>,
      <<Fence, "{partial}", Fence>>,
      <<"null">>,
      <<"{bad">>,
      <<FenceJson, "\n", Fence>> }

Undefined == <<"undefined">>

\* Line 188: both replace calls, then trim
Remove(s, tok) == SelectSeq(s, LAMBDA t : t # tok)
StripFences(rawText) == Trim(Remove(Remove(rawText, FenceJson), Fence))

\* JSON.parse: TRUE when it throws a SyntaxError
ParseThrows(text) == ~(Len(text) = 1 /\ text[1] \in JsonDocs)
JsonParse(text) == JsonValue(text[1])

\* Variant: the inputs compared with the empty string, untrimmed
IsBlankNoTrim(s) == s = << >>

\* Line 154: !text.trim()
IsBlank(s) == Trim(s) = << >>

\* analyzeResume up to its first await, lines 153-183.  The button is disabled
\* while loading is set (line 321).
analyzeResume ==
    /\ MainScreen
    /\ ~loading
    /\ UserEvent
    /\ IF IsBlank(resumeText) \/ IsBlank(jobDescription)
       THEN /\ error' = MsgValidation
            /\ lastEvent' = Event("analyzeResume", "validation", NoFile)
            /\ UNCHANGED <<loading, result, netCalls, analyses>>
       ELSE IF ~getEnv("VITE_GEMINI_API_KEY")
       THEN /\ result' = Null
            /\ error' = MsgApiKey
            /\ loading' = FALSE
            /\ lastEvent' = Event("analyzeResume", "config", NoFile)
            /\ UNCHANGED <<netCalls, analyses>>
       ELSE /\ loading' = TRUE
            /\ error' = NoError
            /\ result' = Null
            /\ netCalls' = netCalls + 1
            /\ analyses' = Add(analyses, [pc |-> "fetch"])
            /\ lastEvent' = Event("analyzeResume", "started", NoFile)
    /\ UNCHANGED <<user, authLoading, resumeText, jobDescription, fileName,
                   pdfjsLib, scriptFetches, scriptLoads, files, signOuts, signIns,
                   unhandled, env>>

\* Variant: the catch block without the finally block
AnalysisCatchNoFinally(a) ==
    /\ error' = MsgAnalysis
    /\ analyses' = Drop(analyses, a)
    /\ lastEvent' = Event("analyzeResume", "failed", NoFile)
    /\ UNCHANGED <<user, authLoading, resumeText, jobDescription, loading, result,
                   fileName, pdfjsLib, scriptFetches, scriptLoads, netCalls, files,
                   signOuts, signIns, unhandled, env, ops>>

\* The catch and finally blocks, lines 191-196
AnalysisCatch(a) ==
    /\ error' = MsgAnalysis
    /\ loading' = FALSE
    /\ analyses' = Drop(analyses, a)
    /\ lastEvent' = Event("analyzeResume", "failed", NoFile)
    /\ UNCHANGED <<user, authLoading, resumeText, jobDescription, result, fileName,
                   pdfjsLib, scriptFetches, scriptLoads, netCalls, files, signOuts,
                   signIns, unhandled, env, ops>>

\* fetch rejects (no connection)
FetchRejected(a) ==
    /\ a.pc = "fetch"
    /\ AnalysisCatch(a)

\* fetch resolves, line 185: a non-success status throws
FetchResolved(a, ok) ==
    /\ a.pc = "fetch"
    /\ IF ~ok
       THEN AnalysisCatch(a)
       ELSE /\ analyses' = Move(analyses, a, [a EXCEPT !.pc = "json"])
            /\ lastEvent' = Event("analyzeResume", "progress", NoFile)
            /\ UNCHANGED <<user, authLoading, resumeText, jobDescription, loading,
                           result, error, fileName, pdfjsLib, scriptFetches,
                           scriptLoads, netCalls, files, signOuts, signIns,
                           unhandled, env, ops>>

\* response.json() rejects (the body is not JSON)
JsonRejected(a) ==
    /\ a.pc = "json"
    /\ AnalysisCatch(a)

\* Lines 189 and 194-196 once the reply text parsed
StoreResult(a, value) ==
    /\ result' = value
    /\ loading' = FALSE
    /\ analyses' = Drop(analyses, a)
    /\ lastEvent' = Event("analyzeResume", "ok", NoFile)
    /\ UNCHANGED <<user, authLoading, resumeText, jobDescription, error, fileName,
                   pdfjsLib, scriptFetches, scriptLoads, netCalls, files, signOuts,
                   signIns, unhandled, env, ops>>

\* response.json() resolves, lines 186-189: rawText is the reply's text or
\* undefined; undefined.replace and JSON.parse on bad text both throw.
JsonResolved(a, rawText) ==
    /\ a.pc = "json"
    /\ IF rawText = Undefined \/ ParseThrows(StripFences(rawText))
       THEN AnalysisCatch(a)
       ELSE StoreResult(a, JsonParse(StripFences(rawText)))

----------------------------------------------------------------------------
Next ==
    \/ AuthListener
    \/ handleGoogleLogin
    \/ SignInResolved
    \/ SignInRejected
    \/ handleLogout
    \/ SignOutResolved
    \/ SignOutRejected
    \/ \E t \in TypedTexts : EditResume(t)
    \/ \E t \in TypedTexts : EditJob(t)
    \/ AutoFill
    \/ DismissError
    \/ processNoFile
    \/ \E f \in Files : processPdfStart(f)
    \/ \E f \in Files : processTxtStart(f)
    \/ \E f \in Files : processUnsupported(f)
    \/ \E c \in BagToSet(files) : ScriptOnload(c)
    \/ \E c \in BagToSet(files) : ScriptOnerror(c)
    \/ \E c \in BagToSet(files) : PdfRejected(c)
    \/ \E c \in BagToSet(files) : BytesRead(c)
    \/ \E c \in BagToSet(files) : DocOpened(c)
    \/ \E c \in BagToSet(files) : PageGot(c)
    \/ \E c \in BagToSet(files) : TextGot(c)
    \/ \E c \in BagToSet(files) : TxtRead(c)
    \/ \E c \in BagToSet(files) : TxtRejected(c)
    \/ analyzeResume
    \/ \E a \in BagToSet(analyses) : FetchRejected(a)
    \/ \E a \in BagToSet(analyses), ok \in BOOLEAN : FetchResolved(a, ok)
    \/ \E a \in BagToSet(analyses) : JsonRejected(a)
    \/ \E a \in BagToSet(analyses), t \in RawTexts \cup {Undefined} : JsonResolved(a, t)

Spec == Init /\ [][Next]_vars

----------------------------------------------------------------------------
(* PDF extraction alone: a signed-in user uploads PDFs of up to MaxPages     *)
(* pages, one at a time.                                                    *)

ExtractInit ==
    /\ user = SomeUser
    /\ authLoading = FALSE
    /\ resumeText = EmptyStr
    /\ jobDescription = EmptyStr
    /\ loading = FALSE
    /\ result = Null
    /\ error = NoError
    /\ fileName = ""
    /\ pdfjsLib = FALSE
    /\ scriptFetches = 0
    /\ scriptLoads = 0
    /\ netCalls = 0
    /\ files = EmptyBag
    /\ analyses = EmptyBag
    /\ signOuts = 0
    /\ signIns = 0
    /\ unhandled = {}
    /\ env = [VITE_FIREBASE_API_KEY |-> TRUE, VITE_GEMINI_API_KEY |-> TRUE]
    /\ ops = 0
    /\ lastEvent = Event("onAuthStateChanged", "", NoFile)

UploadPdf ==
    /\ files = EmptyBag
    /\ \E f \in PdfFiles : processPdfStart(f)

ExtractNext ==
    \/ UploadPdf
    \/ \E c \in BagToSet(files) : ScriptOnload(c)
    \/ \E c \in BagToSet(files) : ScriptOnerror(c)
    \/ \E c \in BagToSet(files) : PdfRejected(c)
    \/ \E c \in BagToSet(files) : BytesRead(c)
    \/ \E c \in BagToSet(files) : DocOpened(c)
    \/ \E c \in BagToSet(files) : PageGot(c)
    \/ \E c \in BagToSet(files) : TextGot(c)

ExtractSpec == ExtractInit /\ [][ExtractNext]_vars

----------------------------------------------------------------------------
(* Properties *)

Messages == {MsgFirebase, MsgLogin, MsgPdf, MsgUnsupported, MsgValidation,
             MsgApiKey, MsgAnalysis}

AnalyzeFailed ==
    /\ lastEvent.op = "analyzeResume"
    /\ lastEvent.out \in {"validation", "config", "failed"}

\* C1: whenever an invocation of analyzeResume has just ended in failure
\* (validation, configuration, or the catch block), the result is none and
\* the error holds one message.
C1_FailureLeavesNoResult ==
    AnalyzeFailed => (result = Null /\ error \in Messages)

\* The step is an invocation of analyzeResume (the click, up to its first await)
AnalyzeInvoked == ops' = ops + 1 /\ lastEvent'.op = "analyzeResume"

BothProvided == Trim(resumeText) # << >> /\ Trim(jobDescription) # << >>

\* C2: a network request is issued only by an invocation of analyzeResume with
\* both inputs non-blank after trimming and the API key present; an invocation
\* with a blank input issues none and sets the validation error, and one
\* without the key issues none and sets the configuration error.
C2_RequestOnlyWhenValid ==
    [][ /\ netCalls' # netCalls =>
              AnalyzeInvoked /\ BothProvided /\ env["VITE_GEMINI_API_KEY"]
        /\ AnalyzeInvoked /\ ~BothProvided =>
              netCalls' = netCalls /\ error' = MsgValidation
        /\ AnalyzeInvoked /\ BothProvided /\ ~env["VITE_GEMINI_API_KEY"] =>
              netCalls' = netCalls /\ error' = MsgApiKey
      ]_vars

\* An invocation with a whitespace-only resume has been refused without a request
C2_Witness ==
    /\ lastEvent = Event("analyzeResume", "validation", NoFile)
    /\ resumeText # << >> /\ Trim(resumeText) = << >>
    /\ Trim(jobDescription) # << >>
    /\ netCalls = 0
    /\ error = MsgValidation

\* C3: every step in which an invocation of analyzeResume ends after it set
\* the loading flag (success, any failure after the request, missing key)
\* leaves loading = FALSE.
C3_LoadingCleared ==
    [][ (lastEvent'.op = "analyzeResume" /\ lastEvent'.out \in {"ok", "failed", "config"})
            => loading' = FALSE ]_vars

\* An invocation has ended in the catch block with loading cleared
C3_Witness ==
    /\ lastEvent = Event("analyzeResume", "failed", NoFile)
    /\ netCalls > 0
    /\ error = MsgAnalysis
    /\ ~loading

\* C4: at most one script load ever completes, and no call made once the
\* library is loaded starts a new fetch.
C4_AtMostOneLoad ==
    [][ /\ scriptLoads' <= 1
        /\ pdfjsLib => scriptFetches' = scriptFetches ]_vars

ResultWellFormed(r) ==
    /\ {"matchScore", "missingKeywords", "strengths", "improvements"} \subseteq DOMAIN r
    /\ \A k \in {"missingKeywords", "strengths", "improvements"} : r[k].type = "array"

\* C5: the result is none, or has a score and its three lists as arrays.
C5_ResultWellFormed == result = Null \/ ResultWellFormed(result)

\* C6: a processFile that ends as an ingestion error leaves the resume text as
\* it was, has recorded the file's name, and sets the matching error: the
\* unsupported-type step records the name, sets the unsupported message and
\* keeps the text; a PDF call records the name when it starts, no step of it
\* before its end changes the text or the name, and its failing step sets the
\* could-not-read message and keeps both.
C6_IngestionErrorFrame ==
    [][ lastEvent'.op = "processFile" =>
          /\ lastEvent'.out = "unsupported" =>
                /\ resumeText' = resumeText
                /\ fileName' = lastEvent'.file.name
                /\ error' = MsgUnsupported
          /\ lastEvent'.out = "started" =>
                /\ resumeText' = resumeText
                /\ fileName' = lastEvent'.file.name
          /\ lastEvent'.out = "progress" =>
                /\ resumeText' = resumeText
                /\ fileName' = fileName
          /\ lastEvent'.out = "failed" =>
                /\ resumeText' = resumeText
                /\ fileName' = fileName
                /\ error' = MsgPdf
      ]_vars

\* An image has been refused while the resume held text
C6_Witness ==
    /\ lastEvent = Event("processFile", "unsupported", PngFile)
    /\ resumeText # EmptyStr
    /\ fileName = "photo.png"
    /\ error = MsgUnsupported

\* C7: while no user is signed in, the result is none and both texts are empty.
C7_SignedOutCleared ==
    user = NoUser =>
        (result = Null /\ resumeText = EmptyStr /\ jobDescription = EmptyStr)

PdfDone == lastEvent.op = "processFile" /\ lastEvent.out = "ok" /\ IsPdf(lastEvent.file)

PageTexts(pages) == [k \in 1..Len(pages) |-> Join(pages[k], <<" ">>)]

RECURSIVE EachTerminated(_)
EachTerminated(texts) ==
    IF texts = << >> THEN << >>
    ELSE Head(texts) \o <<"\n">> \o EachTerminated(Tail(texts))

\* C8 as stated: after a successful PDF ingestion the resume text is the page
\* segments, in page order, joined by a newline between consecutive pages.
C8_NewlineBetweenPages ==
    PdfDone => resumeText = Join(PageTexts(lastEvent.file.pages), <<"\n">>)

\* C8 amended: after a successful PDF ingestion the resume text is the page
\* segments, in page order, each followed by a newline (each segment being the
\* page's items in order joined by a single space); the text is a function of
\* the document alone.
C8_NewlineAfterEachPage ==
    PdfDone => resumeText = EachTerminated(PageTexts(lastEvent.file.pages))

\* A two-page document has been ingested
C8_Witness ==
    /\ PdfDone
    /\ Len(lastEvent.file.pages) = 2
    /\ resumeText = <<"a", " ", "b", "c", "\n", "d", "\n">>

\* C9: right after a file ingestion starts (or is refused) the file name is
\* that file's name, and right after a direct edit of the resume it is empty.
C9_FileNameProvenance ==
    /\ (lastEvent.op = "processFile" /\ lastEvent.out \in {"started", "unsupported"})
            => fileName = lastEvent.file.name
    /\ lastEvent.op = "editResume" => fileName = ""

\* C10: no handler ends with a rejected promise, and a handler that has just
\* ended in failure has left one message in error.
C10_NothingEscapes ==
    /\ unhandled = {}
    /\ lastEvent.out \in {"notConfigured", "failed", "rejected", "unsupported",
                          "validation", "config"} => error \in Messages

\* C11: whenever an analysis request is in flight the loading flag is set (so
\* the Run Analysis button is disabled), and at most one analysis request is
\* in flight.
C11_InFlightImpliesLoading ==
    /\ analyses # EmptyBag => loading
    /\ BagCardinality(analyses) <= 1

====
